---- MODULE Spec2Model ----
(***************************************************************************)
(* Model of the avr-sts-elevenlabs relay: one downstream session bridged   *)
(* to ElevenLabs conversational upstream connections.                      *)
(*                                                                         *)
(* The repository holds several generations of the relay.  Each one is a   *)
(* state machine of its own and gets its own specification:                *)
(*   Spec       the WebSocket relay with client tools  (unnamed/part_001)  *)
(*   SpecPaced  the HTTP relay with paced 8000-byte framing                *)
(*              (index.js lines 763-1105)                                  *)
(*   SpecHybrid the WebSocket relay with the connection registry           *)
(*              (index.js lines 209-413 and 533-676)                       *)
(* A specification leaves the variables of the other machines untouched.   *)
(*                                                                         *)
(* Sockets are `ws` WebSockets.  readyState is one of CONNECTING, OPEN,    *)
(* CLOSING, CLOSED; send() throws on a CONNECTING socket, delivers on an   *)
(* OPEN one and silently drops on a CLOSING or CLOSED one; close() moves   *)
(* OPEN and CONNECTING sockets to CLOSING; an 'error' event is followed by *)
(* a 'close' event; 'message' events are emitted from the handshake until  *)
(* the socket fails or is CLOSED.                                          *)
(***************************************************************************)
EXTENDS Integers, Sequences, FiniteSets, TLC

(***************************************************************************)
(* Bounds of the model.                                                    *)
(***************************************************************************)
\* messages (downstream or upstream) delivered to one relay session
MaxEvents == 3
\* `init` messages one downstream client sends
MaxInits == 2
\* client_tool_call events one session receives
MaxCalls == 2

(***************************************************************************)
(* Program constants.                                                      *)
(***************************************************************************)
\* the frame size of the audio splitters
chunkSize == 8000

(***************************************************************************)
(* Audio bytes.  A payload is identified by the upstream audio event that  *)
(* carried it, so a buffer is a sequence of slices [ev, from, to): bytes   *)
(* from .. to-1 of the payload of audio event ev.  Concatenation and       *)
(* subarray are computed on that representation; adjacent slices of the    *)
(* same payload are merged so that equal byte strings are equal values.    *)
(***************************************************************************)
Slice(ev, from, to) == [ev |-> ev, from |-> from, to |-> to]

\* Buffer.alloc(0)
EmptyBuffer == <<>>

\* the decoded payload of audio event ev, n bytes long
Payload(ev, n) == IF n = 0 THEN EmptyBuffer ELSE <<Slice(ev, 0, n)>>

RECURSIVE ByteLength(_)
\* buffer.length
ByteLength(buf) ==
  IF buf = <<>> THEN 0
  ELSE (Head(buf).to - Head(buf).from) + ByteLength(Tail(buf))

\* Buffer.concat([a, b])
Concat(a, b) ==
  IF a = <<>> THEN b
  ELSE IF b = <<>> THEN a
  ELSE LET l == a[Len(a)]
           f == Head(b)
       IN  IF l.ev = f.ev /\ l.to = f.from
           THEN SubSeq(a, 1, Len(a) - 1) \o <<Slice(l.ev, l.from, f.to)>> \o Tail(b)
           ELSE a \o b

RECURSIVE Subarray(_, _, _)
\* buffer.subarray(start, end): bytes start .. end-1, end clamped to the length
Subarray(buf, start, end) ==
  IF buf = <<>> \/ end <= 0 \/ end <= start THEN <<>>
  ELSE LET h == Head(buf)
           n == h.to - h.from
           s == IF start < 0 THEN 0 ELSE start
       IN  IF s >= n
           THEN Subarray(Tail(buf), s - n, end - n)
           ELSE LET e == IF end < n THEN end ELSE n
                IN  Concat(<<Slice(h.ev, h.from + s, h.from + e)>>,
                           Subarray(Tail(buf), 0, end - n))

RECURSIVE ConcatAll(_)
\* the concatenation of a sequence of buffers
ConcatAll(bufs) ==
  IF bufs = <<>> THEN <<>> ELSE Concat(Head(bufs), ConcatAll(Tail(bufs)))

(***************************************************************************)
(* State.                                                                  *)
(***************************************************************************)
VARIABLES
  \* ---- WebSocket relay with client tools (unnamed/part_001) ----
  env,           \* process.env: which of ELEVENLABS_AGENT_ID, _AGENT_URL, _API_KEY are set
  clientWs,      \* readyState of the downstream socket
  sessionUuid,   \* let sessionUuid
  conns,         \* every upstream WebSocket this session created, in creation order
  wsElevenLabs,  \* let wsElevenLabs: 0 is null, else an index into conns
  initTasks,     \* initializeElevenLabsConnection calls suspended at an await
  toolTasks,     \* tool handlers awaited by a client_tool_call
  downSent,      \* messages delivered to the downstream client, in order
  refusedSends,  \* the send() calls made on a socket that was not open
  droppedAudio,  \* the numbers of the downstream audio messages dropped for want of an open upstream
  nEvents,       \* messages delivered to the relay so far
  nInits,        \* init messages received so far
  nCalls         \* client_tool_call events received so far

VARIABLES
  \* ---- HTTP relay with paced framing (index.js 763-1105) ----
  ws,                 \* the upstream socket of the request (let ws)
  phase,              \* where handleAudioStream stands: awaitOpen, streaming, failed
  openTimer,          \* the 10 s timer of the wait for open is pending
  res,                \* the response stream: status, ended, destroyed
  written,            \* every res.write(bytes), in order, with the state the sink was in
  ingested,           \* all audio bytes appended to outputChunksQueue so far
  outputChunksQueue,  \* let outputChunksQueue
  isSendingChunks,    \* let isSendingChunks
  senders,            \* sendChunksSequentially runs suspended at their 100 ms timer
  reqState,           \* the request stream: open, ended, errored
  graceTimer,         \* the 1 s timer of req.on("end") is pending
  nPaced              \* events delivered to the HTTP relay so far

VARIABLES
  \* ---- WebSocket relay with the connection registry (index.js 209-413, 533-676) ----
  hybridEnv,          \* process.env: which of ELEVENLABS_AGENT_ID, _API_KEY are set
  hybridClientWs,     \* readyState of the downstream socket, "none" before it connects
  activeConnections,  \* the client ids that have an entry in the Map
  connection,         \* the entry object of the client: elevenLabsWs (0 is null), isConnected
  elevenLabsConns,    \* every upstream WebSocket created for the client, in creation order
  audioTasks,         \* handleClientAudio calls suspended in getSignedUrl
  clientOut,          \* messages delivered to the downstream client, in order
  nHybrid,            \* messages delivered to the relay so far
  \* ---- registry relay with two clients (index.js 536-676) ----
  regClientWs,        \* readyState of each client's downstream socket, "none" before it connects
  regClientId,        \* const clientId of each connection handler, "none" before it runs
  regEntries,         \* the Map activeConnections, by key
  regConns,           \* every upstream WebSocket created, in creation order
  regOut,             \* messages delivered to each client, in order
  nReg                \* messages delivered to the relay so far

relayVars ==
  <<env, clientWs, sessionUuid, conns, wsElevenLabs, initTasks, toolTasks,
    downSent, refusedSends, droppedAudio, nEvents, nInits, nCalls>>

pacedVars ==
  <<ws, phase, openTimer, res, written, ingested, outputChunksQueue,
    isSendingChunks, senders, reqState, graceTimer, nPaced>>

hybridVars ==
  <<hybridEnv, hybridClientWs, activeConnections, connection, elevenLabsConns,
    audioTasks, clientOut, nHybrid>>

registryVars == <<regClientWs, regClientId, regEntries, regConns, regOut, nReg>>

vars == <<relayVars, pacedVars, hybridVars, registryVars>>

(***************************************************************************)
(* ws library semantics used by the handlers.                              *)
(***************************************************************************)
\* ws.close() that starts a closing handshake whatever the readyState
CloseWsAnyState(sock) ==
  [sock EXCEPT !.state = "CLOSING", !.aborted = (sock.state = "CONNECTING")]

\* ws.close()
CloseWs(sock) ==
  IF sock.state \in {"OPEN", "CONNECTING"}
  THEN [sock EXCEPT !.state = "CLOSING", !.aborted = (sock.state = "CONNECTING")]
  ELSE sock

\* clientWs.close()
CloseClient(st) == IF st = "OPEN" THEN "CLOSING" ELSE st

\* a send that puts the message ahead of those already handed to the socket
ClientSendFirst(st, sent, m) == IF st = "OPEN" THEN <<m>> \o sent ELSE sent

\* clientWs.send(m) from a handler: delivered only on an OPEN socket
ClientSend(st, sent, m) == IF st = "OPEN" THEN Append(sent, m) ELSE sent

\* ws.send(m) throws "WebSocket is not open: readyState 0 (CONNECTING)"
SendThrows(sock) == sock.state = "CONNECTING"

\* ws.send(m) on a socket that is not CONNECTING
WsSend(sock, m) ==
  IF sock.state = "OPEN" THEN [sock EXCEPT !.sent = Append(@, m)] ELSE sock

\* a send() call for message m on socket `on` (0 is the client) in readyState
\* st: ws takes the message only on an open socket
Refuse(log, on, st, m) ==
  IF st = "OPEN" THEN log ELSE log \cup {[on |-> on, type |-> m.type, state |-> st]}

\* new WebSocket(wsUrl).  receiving: the handshake completed and the socket has
\* not failed, so 'message' events can be emitted; aborted: close() was called
\* during the handshake, so an 'error' event is still to be emitted; sent: the
\* messages delivered on this socket, in order.
NewWebSocket ==
  [state |-> "CONNECTING", receiving |-> FALSE, aborted |-> FALSE, sent |-> <<>>]

(***************************************************************************)
(* WebSocket relay with client tools: unnamed/part_001.                    *)
(***************************************************************************)
\* the tool names the registry resolves (avr_tools/)
RegisteredTools == {"avr_transfer", "avr_hangup"}

\* tool names an upstream agent may ask for
ToolNames == RegisteredTools \cup {"no_such_tool"}

\* getToolHandler(name) of ./loadTools: the handler, or nothing
getToolHandler(name) == IF name \in RegisteredTools THEN name ELSE "none"

\* `No handler found for tool: ${name}`
NoHandlerMessage(name) == "No handler found for tool: " \o name

\* uuid values an init message carries
Uuids == {"u1"}

\* transcript texts
Texts == {"hello"}

\* event_id values of upstream pings
EventIds == {1, 2}

\* audio format names of conversation_initiation_metadata
Formats == {"pcm_8000", "pcm_16000"}

\* decoded sizes of the audio payloads the upstream sends to the relay
RelayAudioSizes == {0, 100, 20000}

\* what a downstream client can send
ClientMessages ==
  {[type |-> "malformed"], [type |-> "ping"], [type |-> "other"]}
    \cup {[type |-> "audio", audio |-> a] : a \in {"base64", "undefined"}}
    \cup {[type |-> "init", uuid |-> u] : u \in Uuids}

\* what an upstream connection can deliver (tool calls are added with their id)
UpstreamMessages ==
  {[type |-> t] : t \in {"malformed", "agent_response_correction", "interruption",
                         "agent_tool_response", "other"}}
    \cup {[type |-> "conversation_initiation_metadata",
           agent_output_audio_format |-> o, user_input_audio_format |-> i] :
             o \in Formats, i \in Formats}
    \cup {[type |-> "agent_response", agent_response |-> t] : t \in Texts}
    \cup {[type |-> "user_transcript", user_transcript |-> t] : t \in Texts}
    \cup {[type |-> "audio", bytes |-> n] : n \in RelayAudioSizes}
    \cup {[type |-> "ping", event_id |-> e] : e \in EventIds}
    \cup {[type |-> "client_tool_call", tool_name |-> n, parameters |-> p] :
             n \in ToolNames, p \in {"object", "undefined"}}

\* let wsElevenLabs = null; let sessionUuid = null; no task is running
RelayInit ==
  /\ env \in [agentId : BOOLEAN, agentUrl : BOOLEAN, apiKey : BOOLEAN]
  /\ clientWs = "OPEN"
  /\ sessionUuid = "null"
  /\ conns = <<>>
  /\ wsElevenLabs = 0
  /\ initTasks = [agentUrl |-> 0, signedUrl |-> 0]
  /\ toolTasks = {}
  /\ downSent = <<>>
  /\ refusedSends = {}
  /\ droppedAudio = {}
  /\ nEvents = 0
  /\ nInits = 0
  /\ nCalls = 0

\* function cleanup(): if (wsElevenLabs) wsElevenLabs.close(); clientWs.close()
cleanup(cs, cl) ==
  [conns  |-> IF wsElevenLabs # 0 THEN [cs EXCEPT ![wsElevenLabs] = CloseWs(@)] ELSE cs,
   client |-> CloseClient(cl)]

\* createElevenLabsConnectionForWebSocket(agentId), then the assignment to
\* wsElevenLabs and the registration of its handlers.  With an API key the call
\* suspends on getSignedUrl; without one the socket exists before any other
\* event is handled.  tasks: the suspended calls apart from this one.
createElevenLabsConnectionForWebSocket(tasks) ==
  IF env.apiKey
  THEN /\ initTasks' = [tasks EXCEPT !.signedUrl = @ + 1]
       /\ UNCHANGED <<conns, wsElevenLabs>>
  ELSE /\ conns' = Append(conns, NewWebSocket)
       /\ wsElevenLabs' = Len(conns) + 1
       /\ initTasks' = tasks

\* initializeElevenLabsConnection(), up to its first suspension
initializeElevenLabsConnection ==
  IF env.agentId
  THEN /\ createElevenLabsConnectionForWebSocket(initTasks)
       /\ UNCHANGED clientWs
  ELSE IF env.agentUrl
  THEN /\ initTasks' = [initTasks EXCEPT !.agentUrl = @ + 1]
       /\ UNCHANGED <<conns, wsElevenLabs, clientWs>>
  ELSE /\ clientWs' = CloseClient(clientWs)
       /\ UNCHANGED <<conns, wsElevenLabs, initTasks>>

\* case "audio" without the readyState test: the chunk is sent whenever an
\* upstream socket exists; a throwing send is caught and closes the client
ClientAudioUnguarded(m) ==
  /\ m.type = "audio"
  /\ IF wsElevenLabs # 0
     THEN IF m.audio = "undefined" \/ SendThrows(conns[wsElevenLabs])
          THEN /\ clientWs' = CloseClient(clientWs)
               /\ refusedSends' =
                    IF m.audio = "undefined" THEN refusedSends
                    ELSE Refuse(refusedSends, wsElevenLabs, conns[wsElevenLabs].state,
                                [type |-> "user_audio_chunk"])
               /\ UNCHANGED <<conns, droppedAudio>>
          ELSE /\ conns' = [conns EXCEPT ![wsElevenLabs] =
                              WsSend(@, [type |-> "user_audio_chunk", chunk |-> nEvents + 1])]
               /\ refusedSends' = Refuse(refusedSends, wsElevenLabs,
                                         conns[wsElevenLabs].state,
                                         [type |-> "user_audio_chunk"])
               /\ UNCHANGED <<clientWs, droppedAudio>>
     ELSE /\ droppedAudio' = droppedAudio \cup {nEvents + 1}
          /\ UNCHANGED <<conns, clientWs, refusedSends>>
  /\ UNCHANGED <<sessionUuid, wsElevenLabs, initTasks, nInits>>

\* clientWs.on("message"), case "audio"
ClientAudio(m) ==
  /\ m.type = "audio"
  /\ IF wsElevenLabs # 0 /\ conns[wsElevenLabs].state = "OPEN"
     THEN IF m.audio = "undefined"
          \* message.audio.toString throws: the catch closes the client
          THEN /\ clientWs' = CloseClient(clientWs)
               /\ UNCHANGED <<conns, refusedSends, droppedAudio>>
          ELSE /\ conns' = [conns EXCEPT ![wsElevenLabs] =
                              WsSend(@, [type |-> "user_audio_chunk", chunk |-> nEvents + 1])]
               /\ refusedSends' = Refuse(refusedSends, wsElevenLabs,
                                         conns[wsElevenLabs].state,
                                         [type |-> "user_audio_chunk"])
               /\ UNCHANGED <<clientWs, droppedAudio>>
     \* no else branch in the code: the chunk is neither sent nor kept
     ELSE /\ droppedAudio' = droppedAudio \cup {nEvents + 1}
          /\ UNCHANGED <<conns, clientWs, refusedSends>>
  /\ UNCHANGED <<sessionUuid, wsElevenLabs, initTasks, nInits>>

\* clientWs.on("message"), case "init"
ClientInit(m) ==
  /\ m.type = "init"
  /\ nInits < MaxInits
  /\ nInits' = nInits + 1
  /\ sessionUuid' = m.uuid
  /\ initializeElevenLabsConnection
  /\ UNCHANGED <<refusedSends, droppedAudio>>

\* clientWs.on("message"), JSON.parse throws: the catch closes the client
ClientMalformed(m) ==
  /\ m.type = "malformed"
  /\ clientWs' = CloseClient(clientWs)
  /\ UNCHANGED <<sessionUuid, conns, wsElevenLabs, initTasks, refusedSends,
                 droppedAudio, nInits>>

\* clientWs.on("message"), default: any other type is logged
ClientUnknown(m) ==
  /\ m.type \notin {"audio", "init", "malformed"}
  /\ UNCHANGED <<clientWs, sessionUuid, conns, wsElevenLabs, initTasks,
                 refusedSends, droppedAudio, nInits>>

\* clientWs.on("message", ...)
ClientMessage(m) ==
  /\ clientWs \in {"OPEN", "CLOSING"}
  /\ nEvents < MaxEvents
  /\ nEvents' = nEvents + 1
  /\ \/ ClientAudio(m)
     \/ ClientInit(m)
     \/ ClientMalformed(m)
     \/ ClientUnknown(m)
  /\ UNCHANGED <<env, toolTasks, downSent, nCalls>>
  /\ UNCHANGED <<pacedVars, hybridVars, registryVars>>

\* the await of axios.get(ELEVENLABS_AGENT_URL) settles
AgentUrlResolve(ok) ==
  /\ initTasks.agentUrl > 0
  /\ IF ok
     THEN /\ createElevenLabsConnectionForWebSocket(
                [initTasks EXCEPT !.agentUrl = @ - 1])
          /\ UNCHANGED clientWs
     ELSE /\ clientWs' = CloseClient(clientWs)
          /\ initTasks' = [initTasks EXCEPT !.agentUrl = @ - 1]
          /\ UNCHANGED <<conns, wsElevenLabs>>
  /\ UNCHANGED <<env, sessionUuid, toolTasks, downSent, refusedSends, nEvents,
                 nInits, nCalls>>
  /\ UNCHANGED <<droppedAudio, pacedVars, hybridVars, registryVars>>

\* the await of getSignedUrl settles: a socket is created, or the catch of
\* initializeElevenLabsConnection reports the failure
SignedUrlResolve(ok) ==
  /\ initTasks.signedUrl > 0
  /\ initTasks' = [initTasks EXCEPT !.signedUrl = @ - 1]
  /\ IF ok
     THEN /\ conns' = Append(conns, NewWebSocket)
          /\ wsElevenLabs' = Len(conns) + 1
          /\ UNCHANGED downSent
     ELSE /\ downSent' = ClientSend(clientWs, downSent,
                [type |-> "error", message |-> "Failed to connect to ElevenLabs"])
          /\ UNCHANGED <<conns, wsElevenLabs>>
  /\ UNCHANGED <<env, clientWs, sessionUuid, toolTasks, refusedSends, nEvents,
                 nInits, nCalls>>
  /\ UNCHANGED <<droppedAudio, pacedVars, hybridVars, registryVars>>

\* wsElevenLabs.send(m) inside a handler whose try/catch swallows the throw
SendOnWsElevenLabs(cs, m) ==
  IF SendThrows(cs[wsElevenLabs]) THEN cs
  ELSE [cs EXCEPT ![wsElevenLabs] = WsSend(@, m)]

\* what wsElevenLabs.on("message") sends to the client for message m, number k
Translate(m, k) ==
  CASE m.type = "agent_response" ->
         <<[type |-> "transcript", role |-> "agent", text |-> m.agent_response]>>
    [] m.type = "user_transcript" ->
         <<[type |-> "transcript", role |-> "user", text |-> m.user_transcript]>>
    [] m.type = "agent_response_correction" -> <<[type |-> "interruption"]>>
    [] m.type = "interruption" -> <<[type |-> "interruption"]>>
    [] m.type = "audio" -> <<[type |-> "audio", audio |-> Payload(k, m.bytes)]>>
    [] OTHER -> <<>>

\* a handler that translates nothing while a tool handler is awaited
UpstreamForwardAfterTools(c, m) ==
  /\ m.type \in {"agent_response", "user_transcript", "agent_response_correction",
                 "interruption", "audio"}
  /\ IF toolTasks = {}
     THEN /\ downSent' = ClientSend(clientWs, downSent, Translate(m, nEvents + 1)[1])
          /\ refusedSends' = Refuse(refusedSends, 0, clientWs, Translate(m, nEvents + 1)[1])
     ELSE UNCHANGED <<downSent, refusedSends>>
  /\ UNCHANGED <<conns, toolTasks, nCalls>>

\* wsElevenLabs.on("message"): the cases that send to the client
UpstreamForward(c, m) ==
  /\ m.type \in {"agent_response", "user_transcript", "agent_response_correction",
                 "interruption", "audio"}
  /\ downSent' = ClientSend(clientWs, downSent, Translate(m, nEvents + 1)[1])
  /\ refusedSends' = Refuse(refusedSends, 0, clientWs, Translate(m, nEvents + 1)[1])
  /\ UNCHANGED <<conns, toolTasks, nCalls>>

\* wsElevenLabs.on("message"), case "ping"
UpstreamPing(c, m) ==
  /\ m.type = "ping"
  /\ conns' = SendOnWsElevenLabs(conns, [type |-> "pong", event_id |-> m.event_id])
  /\ refusedSends' = Refuse(refusedSends, wsElevenLabs, conns[wsElevenLabs].state,
                            [type |-> "pong"])
  /\ UNCHANGED <<downSent, toolTasks, nCalls>>

\* wsElevenLabs.on("message"), case "client_tool_call"
UpstreamToolCall(c, m) ==
  /\ m.type = "client_tool_call"
  /\ nCalls < MaxCalls
  /\ nCalls' = nCalls + 1
  /\ IF getToolHandler(m.tool_name) = "none"
     THEN /\ conns' = SendOnWsElevenLabs(conns,
                [type |-> "client_tool_result", tool_call_id |-> nCalls + 1,
                 result |-> NoHandlerMessage(m.tool_name), is_error |-> TRUE])
          /\ refusedSends' = Refuse(refusedSends, wsElevenLabs,
                                    conns[wsElevenLabs].state,
                                    [type |-> "client_tool_result"])
          /\ UNCHANGED toolTasks
     ELSE /\ toolTasks' = toolTasks \cup
                {[conn |-> c, tool_call_id |-> nCalls + 1, tool_name |-> m.tool_name,
                  uuid |-> sessionUuid, parameters |-> m.parameters]}
          /\ UNCHANGED <<conns, refusedSends>>
  /\ UNCHANGED downSent

\* wsElevenLabs.on("message"): metadata, agent_tool_response, unknown types and
\* unparseable data are logged
UpstreamLogged(c, m) ==
  /\ m.type \in {"conversation_initiation_metadata", "agent_tool_response",
                 "other", "malformed"}
  /\ UNCHANGED <<conns, downSent, refusedSends, toolTasks, nCalls>>

\* wsElevenLabs.on("message", ...) of upstream connection c
UpstreamMessage(c, m) ==
  /\ conns[c].receiving
  /\ conns[c].state \in {"OPEN", "CLOSING"}
  /\ nEvents < MaxEvents
  /\ nEvents' = nEvents + 1
  /\ \/ UpstreamForward(c, m)
     \/ UpstreamPing(c, m)
     \/ UpstreamToolCall(c, m)
     \/ UpstreamLogged(c, m)
  /\ UNCHANGED <<env, clientWs, sessionUuid, wsElevenLabs, initTasks, nInits>>
  /\ UNCHANGED <<droppedAudio, pacedVars, hybridVars, registryVars>>

\* how the handler of tool task t can end (avr_tools/avr_transfer.js): the
\* destructuring of undefined parameters rejects; otherwise it returns the
\* AMI reply or, when the request fails, a string starting "Error during"
HandlerOutcomes(t) ==
  IF t.parameters = "undefined"
  THEN {[kind |-> "throw", message |-> "TypeError"]}
  ELSE {[kind |-> "return", result |-> "message"],
        [kind |-> "return", result |-> "Error during"]}

\* the client_tool_result the dispatcher builds for outcome o of task t
ToolResult(t, o) ==
  IF o.kind = "return"
  THEN [type |-> "client_tool_result", tool_call_id |-> t.tool_call_id,
        result |-> o.result, is_error |-> FALSE]
  ELSE [type |-> "client_tool_result", tool_call_id |-> t.tool_call_id,
        result |-> o.message, is_error |-> TRUE]

\* the await of handler(sessionUuid, parameters) settles
ToolHandlerDone(t, o) ==
  /\ t \in toolTasks
  /\ o \in HandlerOutcomes(t)
  /\ toolTasks' = toolTasks \ {t}
  /\ conns' = SendOnWsElevenLabs(conns, ToolResult(t, o))
  /\ refusedSends' = Refuse(refusedSends, wsElevenLabs, conns[wsElevenLabs].state,
                            ToolResult(t, o))
  /\ UNCHANGED <<env, clientWs, sessionUuid, wsElevenLabs, initTasks, downSent,
                 nEvents, nInits, nCalls>>
  /\ UNCHANGED <<droppedAudio, pacedVars, hybridVars, registryVars>>

\* a handshake completion that replays the audio dropped while connecting
UpstreamOpenReplay(c) ==
  /\ conns[c].state = "CONNECTING"
  /\ conns' = [conns EXCEPT
                 ![c].state = "OPEN", ![c].receiving = TRUE,
                 ![c].sent = IF droppedAudio = {} THEN @
                             ELSE Append(@, [type |-> "user_audio_chunk",
                                             chunk |-> CHOOSE n \in droppedAudio :
                                                         \A k \in droppedAudio : n <= k])]
  /\ UNCHANGED <<env, clientWs, sessionUuid, wsElevenLabs, initTasks, toolTasks,
                 downSent, refusedSends, nEvents, nInits, nCalls>>
  /\ UNCHANGED <<droppedAudio, pacedVars, hybridVars, registryVars>>

\* the handshake of upstream connection c completes
UpstreamOpen(c) ==
  /\ conns[c].state = "CONNECTING"
  /\ conns' = [conns EXCEPT ![c].state = "OPEN", ![c].receiving = TRUE]
  /\ UNCHANGED <<env, clientWs, sessionUuid, wsElevenLabs, initTasks, toolTasks,
                 downSent, refusedSends, nEvents, nInits, nCalls>>
  /\ UNCHANGED <<droppedAudio, pacedVars, hybridVars, registryVars>>

\* wsElevenLabs.on("error"): the client is told if it is open; ws closes the socket
UpstreamError(c) ==
  /\ \/ conns[c].state \in {"CONNECTING", "OPEN"}
     \/ conns[c].state = "CLOSING" /\ conns[c].aborted
  /\ conns' = [conns EXCEPT ![c].state = "CLOSING", ![c].aborted = FALSE,
                             ![c].receiving = FALSE]
  /\ downSent' = ClientSend(clientWs, downSent,
        [type |-> "error", message |-> "ElevenLabs connection error"])
  /\ UNCHANGED <<env, clientWs, sessionUuid, wsElevenLabs, initTasks, toolTasks,
                 refusedSends, nEvents, nInits, nCalls>>
  /\ UNCHANGED <<droppedAudio, pacedVars, hybridVars, registryVars>>

\* wsElevenLabs.on("close"): cleanup()
UpstreamClose(c) ==
  /\ conns[c].state \in {"OPEN", "CLOSING"}
  /\ ~conns[c].aborted
  /\ LET r == cleanup([conns EXCEPT ![c].state = "CLOSED", ![c].receiving = FALSE],
                      clientWs)
     IN  /\ conns' = r.conns
         /\ clientWs' = r.client
  /\ UNCHANGED <<env, sessionUuid, wsElevenLabs, initTasks, toolTasks, downSent,
                 refusedSends, nEvents, nInits, nCalls>>
  /\ UNCHANGED <<droppedAudio, pacedVars, hybridVars, registryVars>>

\* clientWs.on("error"): cleanup(); ws closes the socket
ClientError ==
  /\ clientWs = "OPEN"
  /\ LET r == cleanup(conns, "CLOSING")
     IN  /\ conns' = r.conns
         /\ clientWs' = r.client
  /\ UNCHANGED <<env, sessionUuid, wsElevenLabs, initTasks, toolTasks, downSent,
                 refusedSends, nEvents, nInits, nCalls>>
  /\ UNCHANGED <<droppedAudio, pacedVars, hybridVars, registryVars>>

\* clientWs.on("close"): cleanup()
ClientClose ==
  /\ clientWs # "CLOSED"
  /\ LET r == cleanup(conns, "CLOSED")
     IN  /\ conns' = r.conns
         /\ clientWs' = r.client
  /\ UNCHANGED <<env, sessionUuid, wsElevenLabs, initTasks, toolTasks, downSent,
                 refusedSends, nEvents, nInits, nCalls>>
  /\ UNCHANGED <<droppedAudio, pacedVars, hybridVars, registryVars>>

(***************************************************************************)
(* HTTP relay with paced framing: index.js lines 763-1105.  One request of *)
(* POST /speech-to-speech-stream with an agent id, from the moment         *)
(* handleAudioStream has created the socket and set ws.responseStream.     *)
(***************************************************************************)
\* decoded sizes of the audio payloads the upstream sends to the HTTP relay
PacedAudioSizes == {0, 100, 8000, 8001, 20000}

\* what the upstream connection can deliver to the HTTP relay
PacedMessages ==
  {[type |-> t] : t \in {"malformed", "user_transcript", "agent_response",
                         "conversation_initiation_metadata", "other"}}
    \cup {[type |-> "audio", bytes |-> n] : n \in PacedAudioSizes}
    \cup {[type |-> "ping", event_id |-> e] : e \in EventIds}

\* ws = await createElevenLabsConnection(agentId); ws.responseStream = res;
\* the wait for "open" with its 10 s timer has started
PacedInit ==
  /\ ws = NewWebSocket
  /\ phase = "awaitOpen"
  /\ openTimer = TRUE
  /\ res = [status |-> "none", ended |-> FALSE, destroyed |-> FALSE]
  /\ written = <<>>
  /\ ingested = EmptyBuffer
  /\ outputChunksQueue = EmptyBuffer
  /\ isSendingChunks = FALSE
  /\ senders = <<>>
  /\ reqState = "open"
  /\ graceTimer = FALSE
  /\ nPaced = 0

\* the state of the sink a write meets
SinkState(r) ==
  IF r.destroyed THEN "destroyed" ELSE IF r.ended THEN "ended" ELSE "open"

\* ws.responseStream.write(bytes) of flush f: only an open sink takes the bytes
ResWrite(w, r, f, bytes) ==
  Append(w, [flush |-> f, bytes |-> bytes, sink |-> SinkState(r)])

\* ws.responseStream.end(): the first end or json fixes the status
ResEnd(r) ==
  [r EXCEPT !.ended = TRUE, !.status = IF @ = "none" THEN "200" ELSE @]

\* res.status(500).json(...): refused once the headers are sent
ResJson(r, status) ==
  IF r.status = "none" THEN [r EXCEPT !.ended = TRUE, !.status = status] ELSE r

\* for (i = 0; i < queue.length; i += chunkSize) chunks.push(queue.subarray(i, i + chunkSize))
SplitChunks(buf) ==
  [k \in 1 .. ((ByteLength(buf) + chunkSize - 1) \div chunkSize) |->
     Subarray(buf, (k - 1) * chunkSize, k * chunkSize)]

\* ws.on("message"), case "audio".  k numbers the event and the flush it starts.
PacedAudio(m) ==
  /\ m.type = "audio"
  /\ LET k      == nPaced + 1
         buffer == Payload(k, m.bytes)
         queue  == Concat(outputChunksQueue, buffer)
         chunks == SplitChunks(queue)
     IN  IF m.bytes = 0
         \* an empty audio_base_64 is falsy: nothing is done
         THEN UNCHANGED <<written, ingested, outputChunksQueue, isSendingChunks, senders>>
         ELSE /\ ingested' = Concat(ingested, buffer)
              /\ IF isSendingChunks
                 THEN /\ outputChunksQueue' = queue
                      /\ UNCHANGED <<written, isSendingChunks, senders>>
                 ELSE /\ outputChunksQueue' = EmptyBuffer
                      /\ IF ByteLength(queue) > chunkSize
                         \* sendChunksSequentially runs up to its first await
                         THEN IF ~res.destroyed
                              THEN /\ written' = ResWrite(written, res, k, chunks[1])
                                   /\ senders' = Append(senders,
                                                   [chunks |-> chunks, i |-> 2, flush |-> k])
                                   /\ isSendingChunks' = TRUE
                              ELSE /\ isSendingChunks' = FALSE
                                   /\ UNCHANGED <<written, senders>>
                         ELSE /\ written' = ResWrite(written, res, k, queue)
                              /\ UNCHANGED <<isSendingChunks, senders>>
  /\ UNCHANGED ws

\* ws.on("message"), case "ping"
PacedPing(m) ==
  /\ m.type = "ping"
  /\ ws' = WsSend(ws, [type |-> "pong", event_id |-> m.event_id])
  /\ UNCHANGED <<written, ingested, outputChunksQueue, isSendingChunks, senders>>

\* ws.on("message"): transcripts, metadata, unknown types and unparseable
\* data are logged
PacedLogged(m) ==
  /\ m.type \notin {"audio", "ping"}
  /\ UNCHANGED <<ws, written, ingested, outputChunksQueue, isSendingChunks, senders>>

\* ws.on("message", ...)
PacedMessage(m) ==
  /\ ws.receiving
  /\ ws.state \in {"OPEN", "CLOSING"}
  /\ nPaced < MaxEvents
  /\ nPaced' = nPaced + 1
  /\ \/ PacedAudio(m)
     \/ PacedPing(m)
     \/ PacedLogged(m)
  /\ UNCHANGED <<phase, openTimer, res, reqState, graceTimer>>
  /\ UNCHANGED <<relayVars, hybridVars, registryVars>>

\* a run of sendChunksSequentially that writes its next chunk without looking
\* at the sink
PacedTimerUnchecked(s) ==
  /\ s \in 1 .. Len(senders)
  /\ LET run  == senders[s]
         rest == SubSeq(senders, 1, s - 1) \o SubSeq(senders, s + 1, Len(senders))
     IN  /\ written' = ResWrite(written, res, run.flush, run.chunks[run.i])
         /\ IF run.i < Len(run.chunks)
            THEN /\ senders' = [senders EXCEPT ![s].i = @ + 1]
                 /\ UNCHANGED isSendingChunks
            ELSE /\ senders' = rest
                 /\ isSendingChunks' = FALSE
  /\ UNCHANGED <<ws, phase, openTimer, res, ingested, outputChunksQueue, reqState,
                 graceTimer, nPaced>>
  /\ UNCHANGED <<relayVars, hybridVars, registryVars>>

\* the 100 ms timer of run s of sendChunksSequentially fires: the next chunk
\* is written, or the loop breaks; the finally block resets the flag
PacedTimer(s) ==
  /\ s \in 1 .. Len(senders)
  /\ LET run  == senders[s]
         rest == SubSeq(senders, 1, s - 1) \o SubSeq(senders, s + 1, Len(senders))
     IN  IF ~res.destroyed
         THEN /\ written' = ResWrite(written, res, run.flush, run.chunks[run.i])
              /\ IF run.i < Len(run.chunks)
                 THEN /\ senders' = [senders EXCEPT ![s].i = @ + 1]
                      /\ UNCHANGED isSendingChunks
                 ELSE /\ senders' = rest
                      /\ isSendingChunks' = FALSE
         ELSE /\ senders' = rest
              /\ isSendingChunks' = FALSE
              /\ UNCHANGED written
  /\ UNCHANGED <<ws, phase, openTimer, res, ingested, outputChunksQueue, reqState,
                 graceTimer, nPaced>>
  /\ UNCHANGED <<relayVars, hybridVars, registryVars>>

\* ws.on("open"): the wait of handleAudioStream resolves and the handlers of
\* the request are registered
PacedOpen ==
  /\ ws.state = "CONNECTING"
  /\ ws' = [ws EXCEPT !.state = "OPEN", !.receiving = TRUE]
  /\ phase' = IF phase = "awaitOpen" THEN "streaming" ELSE phase
  /\ UNCHANGED <<openTimer, res, written, ingested, outputChunksQueue,
                 isSendingChunks, senders, reqState, graceTimer, nPaced>>
  /\ UNCHANGED <<relayVars, hybridVars, registryVars>>

\* the 10 s timer fires: while still waiting, the wait rejects and the catch
\* answers 500; the socket is left as it is
PacedOpenTimeout ==
  /\ openTimer
  /\ openTimer' = FALSE
  /\ IF phase = "awaitOpen"
     THEN /\ phase' = "failed"
          /\ res' = ResJson(res, "500")
     ELSE UNCHANGED <<phase, res>>
  /\ UNCHANGED <<ws, written, ingested, outputChunksQueue, isSendingChunks,
                 senders, reqState, graceTimer, nPaced>>
  /\ UNCHANGED <<relayVars, hybridVars, registryVars>>

\* ws.on("error"): the chunking state is reset and the response ended; while
\* handleAudioStream still waits for open, its wait rejects and the catch
\* answers 500
PacedWsError ==
  /\ \/ ws.state \in {"CONNECTING", "OPEN"}
     \/ ws.state = "CLOSING" /\ ws.aborted
  /\ ws' = [ws EXCEPT !.state = "CLOSING", !.aborted = FALSE, !.receiving = FALSE]
  /\ isSendingChunks' = FALSE
  /\ outputChunksQueue' = EmptyBuffer
  /\ LET ended == IF ~res.destroyed THEN ResEnd(res) ELSE res
     IN  IF phase = "awaitOpen"
         THEN /\ phase' = "failed"
              /\ res' = ResJson(ended, "500")
         ELSE /\ res' = ended
              /\ UNCHANGED phase
  /\ UNCHANGED <<openTimer, written, ingested, senders, reqState, graceTimer, nPaced>>
  /\ UNCHANGED <<relayVars, hybridVars, registryVars>>

\* ws.on("close"): the chunking state is reset; ws.audioChunksQueue is never
\* set, so nothing is flushed; the response is ended
PacedWsClose ==
  /\ ws.state \in {"OPEN", "CLOSING"}
  /\ ~ws.aborted
  /\ ws' = [ws EXCEPT !.state = "CLOSED", !.receiving = FALSE]
  /\ isSendingChunks' = FALSE
  /\ outputChunksQueue' = EmptyBuffer
  /\ res' = IF ~res.destroyed THEN ResEnd(res) ELSE res
  /\ UNCHANGED <<phase, openTimer, written, ingested, senders, reqState,
                 graceTimer, nPaced>>
  /\ UNCHANGED <<relayVars, hybridVars, registryVars>>

\* the connection under the response goes away: res.destroyed becomes true
PacedResClose ==
  /\ ~res.destroyed
  /\ res' = [res EXCEPT !.destroyed = TRUE]
  /\ UNCHANGED <<ws, phase, openTimer, written, ingested, outputChunksQueue,
                 isSendingChunks, senders, reqState, graceTimer, nPaced>>
  /\ UNCHANGED <<relayVars, hybridVars, registryVars>>

\* req.on("data"): the chunk is sent upstream if the socket is open
PacedReqData ==
  /\ phase = "streaming"
  /\ reqState = "open"
  /\ nPaced < MaxEvents
  /\ nPaced' = nPaced + 1
  /\ ws' = IF ws.state = "OPEN"
           THEN WsSend(ws, [type |-> "user_audio_chunk", chunk |-> nPaced + 1])
           ELSE ws
  /\ UNCHANGED <<phase, openTimer, res, written, ingested, outputChunksQueue,
                 isSendingChunks, senders, reqState, graceTimer>>
  /\ UNCHANGED <<relayVars, hybridVars, registryVars>>

\* req.on("end"): the 1 s timer is started
PacedReqEnd ==
  /\ phase = "streaming"
  /\ reqState = "open"
  /\ reqState' = "ended"
  /\ graceTimer' = TRUE
  /\ UNCHANGED <<ws, phase, openTimer, res, written, ingested, outputChunksQueue,
                 isSendingChunks, senders, nPaced>>
  /\ UNCHANGED <<relayVars, hybridVars, registryVars>>

\* a 1 s timer whose callback leaves the socket alone
PacedGraceNoClose ==
  /\ graceTimer
  /\ graceTimer' = FALSE
  /\ UNCHANGED <<ws, phase, openTimer, res, written, ingested, outputChunksQueue,
                 isSendingChunks, senders, reqState, nPaced>>
  /\ UNCHANGED <<relayVars, hybridVars, registryVars>>

\* the 1 s timer fires: an open socket is closed
PacedGrace ==
  /\ graceTimer
  /\ graceTimer' = FALSE
  /\ ws' = IF ws.state = "OPEN" THEN CloseWs(ws) ELSE ws
  /\ UNCHANGED <<phase, openTimer, res, written, ingested, outputChunksQueue,
                 isSendingChunks, senders, reqState, nPaced>>
  /\ UNCHANGED <<relayVars, hybridVars, registryVars>>

\* req.on("error"): an open socket is closed and the response ended
PacedReqError ==
  /\ phase = "streaming"
  /\ reqState = "open"
  /\ reqState' = "errored"
  /\ ws' = IF ws.state = "OPEN" THEN CloseWs(ws) ELSE ws
  /\ res' = IF ~res.destroyed THEN ResEnd(res) ELSE res
  /\ UNCHANGED <<phase, openTimer, written, ingested, outputChunksQueue,
                 isSendingChunks, senders, graceTimer, nPaced>>
  /\ UNCHANGED <<relayVars, hybridVars, registryVars>>

PacedNext ==
  \/ \E m \in PacedMessages : PacedMessage(m)
  \/ \E s \in 1 .. Len(senders) : PacedTimer(s)
  \/ PacedOpen
  \/ PacedOpenTimeout
  \/ PacedWsError
  \/ PacedWsClose
  \/ PacedResClose
  \/ PacedReqData
  \/ PacedReqEnd
  \/ PacedGrace
  \/ PacedReqError

(***************************************************************************)
(* WebSocket relay with the connection registry: index.js lines 209-413    *)
(* and 533-676.  One downstream client, from before it connects.           *)
(***************************************************************************)
\* const clientId = uuidv4()
ClientId == "c1"

\* what the downstream client can send
HybridClientMessages ==
  {[type |-> t] : t \in {"malformed", "audio", "ping", "other"}}

\* what an upstream connection can deliver
HybridUpstreamMessages ==
  {m \in UpstreamMessages : m.type \notin {"client_tool_call", "agent_tool_response"}}

\* the server listens, no client has connected
HybridInit ==
  /\ hybridEnv \in [agentId : BOOLEAN, apiKey : BOOLEAN]
  /\ hybridClientWs = "none"
  /\ activeConnections = {}
  /\ connection = [elevenLabsWs |-> 0, isConnected |-> FALSE]
  /\ elevenLabsConns = <<>>
  /\ audioTasks = 0
  /\ clientOut = <<>>
  /\ nHybrid = 0

\* wss.on("connection"): without an agent id the client is refused; otherwise
\* it is greeted and entered in activeConnections
HybridConnection ==
  /\ hybridClientWs = "none"
  /\ IF ~hybridEnv.agentId
     THEN /\ clientOut' = ClientSend("OPEN", clientOut,
                 [type |-> "error", message |-> "Agent ID is required"])
          /\ hybridClientWs' = CloseClient("OPEN")
          /\ UNCHANGED <<activeConnections, connection>>
     ELSE /\ clientOut' = ClientSend("OPEN", clientOut, [type |-> "connected"])
          /\ hybridClientWs' = "OPEN"
          /\ activeConnections' = activeConnections \cup {ClientId}
          /\ connection' = [elevenLabsWs |-> 0, isConnected |-> FALSE]
  /\ UNCHANGED <<hybridEnv, elevenLabsConns, audioTasks, nHybrid>>
  /\ UNCHANGED <<relayVars, pacedVars, registryVars>>

\* handleClientAudio(clientId, audioData), up to its first suspension
handleClientAudio ==
  IF ClientId \notin activeConnections
  THEN UNCHANGED <<connection, elevenLabsConns, audioTasks>>
  ELSE IF connection.elevenLabsWs = 0
          \/ elevenLabsConns[connection.elevenLabsWs].state = "CLOSED"
  THEN IF hybridEnv.apiKey
       THEN /\ audioTasks' = audioTasks + 1
            /\ UNCHANGED <<connection, elevenLabsConns>>
       \* the new socket is CONNECTING: the audio is not sent
       ELSE /\ elevenLabsConns' = Append(elevenLabsConns, NewWebSocket)
            /\ connection' = [elevenLabsWs |-> Len(elevenLabsConns) + 1,
                              isConnected |-> TRUE]
            /\ UNCHANGED audioTasks
  ELSE /\ elevenLabsConns' =
            IF elevenLabsConns[connection.elevenLabsWs].state = "OPEN"
            THEN [elevenLabsConns EXCEPT ![connection.elevenLabsWs] =
                    WsSend(@, [type |-> "user_audio_chunk", chunk |-> nHybrid + 1])]
            ELSE elevenLabsConns
       /\ UNCHANGED <<connection, audioTasks>>

\* clientWs.on("message", ...)
HybridClientMessage(m) ==
  /\ hybridEnv.agentId
  /\ hybridClientWs \in {"OPEN", "CLOSING"}
  /\ nHybrid < MaxEvents
  /\ nHybrid' = nHybrid + 1
  /\ CASE m.type = "audio" ->
            /\ handleClientAudio
            /\ UNCHANGED clientOut
       [] m.type = "ping" ->
            /\ clientOut' = ClientSend(hybridClientWs, clientOut, [type |-> "pong"])
            /\ UNCHANGED <<connection, elevenLabsConns, audioTasks>>
       [] m.type = "malformed" ->
            /\ clientOut' = ClientSend(hybridClientWs, clientOut,
                   [type |-> "error", message |-> "Invalid message format"])
            /\ UNCHANGED <<connection, elevenLabsConns, audioTasks>>
       [] OTHER ->
            UNCHANGED <<clientOut, connection, elevenLabsConns, audioTasks>>
  /\ UNCHANGED <<hybridEnv, hybridClientWs, activeConnections>>
  /\ UNCHANGED <<relayVars, pacedVars, registryVars>>

\* the await of getSignedUrl in a suspended handleClientAudio settles: the
\* socket is created and stored in the entry object, or the client is told
HybridSignedUrlResolve(ok) ==
  /\ audioTasks > 0
  /\ audioTasks' = audioTasks - 1
  /\ IF ok
     THEN /\ elevenLabsConns' = Append(elevenLabsConns, NewWebSocket)
          /\ connection' = [elevenLabsWs |-> Len(elevenLabsConns) + 1,
                            isConnected |-> TRUE]
          /\ UNCHANGED clientOut
     ELSE /\ clientOut' = ClientSend(hybridClientWs, clientOut,
                 [type |-> "error", message |-> "Failed to connect to ElevenLabs agent"])
          /\ UNCHANGED <<connection, elevenLabsConns>>
  /\ UNCHANGED <<hybridEnv, hybridClientWs, activeConnections, nHybrid>>
  /\ UNCHANGED <<relayVars, pacedVars, registryVars>>

\* what ws.on("message") of createElevenLabsConnectionForWebSocket sends to the
\* client for message m: the audio case asks for ws.responseStream, which is
\* never set on these sockets, and a correction is only logged
HybridTranslate(m) ==
  CASE m.type = "user_transcript" ->
         <<[type |-> "transcript", transcript |-> m.user_transcript]>>
    [] m.type = "agent_response" ->
         <<[type |-> "agent_response", response |-> m.agent_response]>>
    [] m.type = "conversation_initiation_metadata" ->
         <<[type |-> "conversation_initiated"]>>
    [] m.type = "interruption" -> <<[type |-> "interruption"]>>
    [] OTHER -> <<>>

\* ws.on("message", ...) of upstream connection c
HybridUpstreamMessage(c, m) ==
  /\ elevenLabsConns[c].receiving
  /\ elevenLabsConns[c].state \in {"OPEN", "CLOSING"}
  /\ nHybrid < MaxEvents
  /\ nHybrid' = nHybrid + 1
  /\ clientOut' = IF HybridTranslate(m) = <<>> THEN clientOut
                  ELSE ClientSend(hybridClientWs, clientOut, HybridTranslate(m)[1])
  /\ elevenLabsConns' =
       IF m.type = "ping"
       THEN [elevenLabsConns EXCEPT ![c] =
               WsSend(@, [type |-> "pong", event_id |-> m.event_id])]
       ELSE elevenLabsConns
  /\ UNCHANGED <<hybridEnv, hybridClientWs, activeConnections, connection, audioTasks>>
  /\ UNCHANGED <<relayVars, pacedVars, registryVars>>

\* the handshake of upstream connection c completes
HybridUpstreamOpen(c) ==
  /\ elevenLabsConns[c].state = "CONNECTING"
  /\ elevenLabsConns' = [elevenLabsConns EXCEPT ![c].state = "OPEN",
                                                ![c].receiving = TRUE]
  /\ UNCHANGED <<hybridEnv, hybridClientWs, activeConnections, connection,
                 audioTasks, clientOut, nHybrid>>
  /\ UNCHANGED <<relayVars, pacedVars, registryVars>>

\* ws.on("error") of upstream connection c: the client is told
HybridUpstreamError(c) ==
  /\ \/ elevenLabsConns[c].state \in {"CONNECTING", "OPEN"}
     \/ elevenLabsConns[c].state = "CLOSING" /\ elevenLabsConns[c].aborted
  /\ elevenLabsConns' = [elevenLabsConns EXCEPT ![c].state = "CLOSING",
                                                ![c].aborted = FALSE,
                                                ![c].receiving = FALSE]
  /\ clientOut' = ClientSend(hybridClientWs, clientOut,
        [type |-> "error", message |-> "ElevenLabs connection error"])
  /\ UNCHANGED <<hybridEnv, hybridClientWs, activeConnections, connection,
                 audioTasks, nHybrid>>
  /\ UNCHANGED <<relayVars, pacedVars, registryVars>>

\* ws.on("close") of upstream connection c: the client is told
HybridUpstreamClose(c) ==
  /\ elevenLabsConns[c].state \in {"OPEN", "CLOSING"}
  /\ ~elevenLabsConns[c].aborted
  /\ elevenLabsConns' = [elevenLabsConns EXCEPT ![c].state = "CLOSED",
                                                ![c].receiving = FALSE]
  /\ clientOut' = ClientSend(hybridClientWs, clientOut,
        [type |-> "elevenlabs_disconnected"])
  /\ UNCHANGED <<hybridEnv, hybridClientWs, activeConnections, connection,
                 audioTasks, nHybrid>>
  /\ UNCHANGED <<relayVars, pacedVars, registryVars>>

\* the body of clientWs.on("close") and clientWs.on("error"): the socket of the
\* entry is closed and the entry deleted
HybridDisconnect ==
  /\ elevenLabsConns' =
       IF ClientId \in activeConnections /\ connection.elevenLabsWs # 0
       THEN [elevenLabsConns EXCEPT ![connection.elevenLabsWs] = CloseWs(@)]
       ELSE elevenLabsConns
  /\ activeConnections' = activeConnections \ {ClientId}

\* clientWs.on("error"); ws closes the socket
HybridClientError ==
  /\ hybridClientWs = "OPEN"
  /\ hybridEnv.agentId
  /\ hybridClientWs' = "CLOSING"
  /\ HybridDisconnect
  /\ UNCHANGED <<hybridEnv, connection, audioTasks, clientOut, nHybrid>>
  /\ UNCHANGED <<relayVars, pacedVars, registryVars>>

\* clientWs.on("close"); a refused client has no handler
HybridClientClose ==
  /\ hybridClientWs \in {"OPEN", "CLOSING"}
  /\ hybridClientWs' = "CLOSED"
  /\ IF hybridEnv.agentId
     THEN HybridDisconnect
     ELSE UNCHANGED <<elevenLabsConns, activeConnections>>
  /\ UNCHANGED <<hybridEnv, connection, audioTasks, clientOut, nHybrid>>
  /\ UNCHANGED <<relayVars, pacedVars, registryVars>>

HybridConnIds == 1 .. Len(elevenLabsConns)

HybridNext ==
  \/ HybridConnection
  \/ \E m \in HybridClientMessages : HybridClientMessage(m)
  \/ \E ok \in BOOLEAN : HybridSignedUrlResolve(ok)
  \/ \E c \in HybridConnIds : \E m \in HybridUpstreamMessages : HybridUpstreamMessage(c, m)
  \/ \E c \in HybridConnIds : HybridUpstreamOpen(c)
  \/ \E c \in HybridConnIds : HybridUpstreamError(c)
  \/ \E c \in HybridConnIds : HybridUpstreamClose(c)
  \/ HybridClientError
  \/ HybridClientClose

(***************************************************************************)
(* Registry relay with two clients: index.js 536-676 and 209-413, run with *)
(* ELEVENLABS_AGENT_ID set and no API key, so that the creation of an      *)
(* upstream socket does not wait for the network.                          *)
(***************************************************************************)
\* the two downstream connections
Sessions == {1, 2}

\* the values uuidv4() can return
Keys == {"id1", "id2"}

\* a key generator that hands out one value to every connection
uuidv4Same(used) == "id1"

\* uuidv4(): a value not handed out before
uuidv4(used) == CHOOSE k \in Keys : k \notin used

\* what a client can send
RegClientMessages == {[type |-> t] : t \in {"audio", "ping"}}

\* what an upstream connection can deliver
RegUpstreamMessages ==
  {[type |-> "agent_response", agent_response |-> t] : t \in Texts}
    \cup {[type |-> "ping", event_id |-> e] : e \in EventIds}

\* activeConnections.get(key) of a key that is not in the Map
NoEntry == [present |-> FALSE, clientWs |-> 0, elevenLabsWs |-> 0]

\* the server listens, no client has connected
RegInit ==
  /\ regClientWs = [s \in Sessions |-> "none"]
  /\ regClientId = [s \in Sessions |-> "none"]
  /\ regEntries = [k \in Keys |-> NoEntry]
  /\ regConns = <<>>
  /\ regOut = [s \in Sessions |-> <<>>]
  /\ nReg = 0

\* new WebSocket(wsUrl) in createElevenLabsConnectionForWebSocket(agentId,
\* clientWs): the handlers of the socket notify clientWs; by is the client
\* whose message handler made the call
RegNewWebSocket(cw, by) ==
  [state |-> "CONNECTING", receiving |-> FALSE, aborted |-> FALSE, sent |-> <<>>,
   clientWs |-> cw, by |-> by]

\* clientWs.send(m) for client s
RegClientSend(out, s, m) ==
  [out EXCEPT ![s] = ClientSend(regClientWs[s], @, m)]

\* wss.on("connection") for client s: the client is greeted and entered in
\* activeConnections under a fresh id
RegConnection(s) ==
  /\ regClientWs[s] = "none"
  /\ LET clientId == uuidv4({regClientId[x] : x \in Sessions} \ {"none"})
     IN  /\ regClientId' = [regClientId EXCEPT ![s] = clientId]
         /\ regClientWs' = [regClientWs EXCEPT ![s] = "OPEN"]
         /\ regOut' = [regOut EXCEPT ![s] =
                         Append(@, [type |-> "connected", clientId |-> clientId])]
         /\ regEntries' = [regEntries EXCEPT ![clientId] =
                             [present |-> TRUE, clientWs |-> s, elevenLabsWs |-> 0]]
  /\ UNCHANGED <<regConns, nReg>>
  /\ UNCHANGED <<relayVars, pacedVars, hybridVars>>

\* handleClientAudio(clientId, audioData) called by client s
RegHandleClientAudio(s) ==
  LET entry == regEntries[regClientId[s]]
  IN  IF ~entry.present
      THEN UNCHANGED <<regEntries, regConns>>
      ELSE IF entry.elevenLabsWs = 0
              \/ regConns[entry.elevenLabsWs].state = "CLOSED"
      \* the new socket is CONNECTING: the audio is not sent
      THEN /\ regConns' = Append(regConns, RegNewWebSocket(entry.clientWs, s))
           /\ regEntries' = [regEntries EXCEPT
                               ![regClientId[s]].elevenLabsWs = Len(regConns) + 1]
      ELSE /\ regConns' =
                IF regConns[entry.elevenLabsWs].state = "OPEN"
                THEN [regConns EXCEPT ![entry.elevenLabsWs] =
                        WsSend(@, [type |-> "user_audio_chunk", chunk |-> nReg + 1])]
                ELSE regConns
           /\ UNCHANGED regEntries

\* clientWs.on("message", ...) of client s
RegClientMessage(s, m) ==
  /\ regClientWs[s] \in {"OPEN", "CLOSING"}
  /\ nReg < MaxEvents
  /\ nReg' = nReg + 1
  /\ IF m.type = "audio"
     THEN /\ RegHandleClientAudio(s)
          /\ UNCHANGED regOut
     ELSE /\ regOut' = RegClientSend(regOut, s, [type |-> "pong"])
          /\ UNCHANGED <<regEntries, regConns>>
  /\ UNCHANGED <<regClientWs, regClientId>>
  /\ UNCHANGED <<relayVars, pacedVars, hybridVars>>

\* ws.on("message", ...) of upstream connection c
RegUpstreamMessage(c, m) ==
  /\ regConns[c].receiving
  /\ regConns[c].state \in {"OPEN", "CLOSING"}
  /\ nReg < MaxEvents
  /\ nReg' = nReg + 1
  /\ IF m.type = "ping"
     THEN /\ regConns' = [regConns EXCEPT ![c] =
                            WsSend(@, [type |-> "pong", event_id |-> m.event_id])]
          /\ UNCHANGED regOut
     ELSE /\ regOut' = RegClientSend(regOut, regConns[c].clientWs, HybridTranslate(m)[1])
          /\ UNCHANGED regConns
  /\ UNCHANGED <<regClientWs, regClientId, regEntries>>
  /\ UNCHANGED <<relayVars, pacedVars, hybridVars>>

\* the handshake of upstream connection c completes
RegUpstreamOpen(c) ==
  /\ regConns[c].state = "CONNECTING"
  /\ regConns' = [regConns EXCEPT ![c].state = "OPEN", ![c].receiving = TRUE]
  /\ UNCHANGED <<regClientWs, regClientId, regEntries, regOut, nReg>>
  /\ UNCHANGED <<relayVars, pacedVars, hybridVars>>

\* ws.on("error") of upstream connection c: its client is told
RegUpstreamError(c) ==
  /\ \/ regConns[c].state \in {"CONNECTING", "OPEN"}
     \/ regConns[c].state = "CLOSING" /\ regConns[c].aborted
  /\ regConns' = [regConns EXCEPT ![c].state = "CLOSING", ![c].aborted = FALSE,
                                  ![c].receiving = FALSE]
  /\ regOut' = RegClientSend(regOut, regConns[c].clientWs,
        [type |-> "error", message |-> "ElevenLabs connection error"])
  /\ UNCHANGED <<regClientWs, regClientId, regEntries, nReg>>
  /\ UNCHANGED <<relayVars, pacedVars, hybridVars>>

\* ws.on("close") of upstream connection c: its client is told
RegUpstreamClose(c) ==
  /\ regConns[c].state \in {"OPEN", "CLOSING"}
  /\ ~regConns[c].aborted
  /\ regConns' = [regConns EXCEPT ![c].state = "CLOSED", ![c].receiving = FALSE]
  /\ regOut' = RegClientSend(regOut, regConns[c].clientWs,
        [type |-> "elevenlabs_disconnected"])
  /\ UNCHANGED <<regClientWs, regClientId, regEntries, nReg>>
  /\ UNCHANGED <<relayVars, pacedVars, hybridVars>>

\* the body of clientWs.on("close") and clientWs.on("error") of client s: the
\* socket of the entry is closed and the entry deleted
RegDisconnect(s) ==
  LET entry == regEntries[regClientId[s]]
  IN  /\ regConns' =
           IF entry.present /\ entry.elevenLabsWs # 0
           THEN [regConns EXCEPT ![entry.elevenLabsWs] = CloseWs(@)]
           ELSE regConns
      /\ regEntries' = [regEntries EXCEPT ![regClientId[s]] = NoEntry]

\* clientWs.on("error") of client s; ws closes the socket
RegClientError(s) ==
  /\ regClientWs[s] = "OPEN"
  /\ regClientWs' = [regClientWs EXCEPT ![s] = "CLOSING"]
  /\ RegDisconnect(s)
  /\ UNCHANGED <<regClientId, regOut, nReg>>
  /\ UNCHANGED <<relayVars, pacedVars, hybridVars>>

\* clientWs.on("close") of client s
RegClientClose(s) ==
  /\ regClientWs[s] \in {"OPEN", "CLOSING"}
  /\ regClientWs' = [regClientWs EXCEPT ![s] = "CLOSED"]
  /\ RegDisconnect(s)
  /\ UNCHANGED <<regClientId, regOut, nReg>>
  /\ UNCHANGED <<relayVars, pacedVars, hybridVars>>

RegConnIds == 1 .. Len(regConns)

RegistryNext ==
  \/ \E s \in Sessions : RegConnection(s)
  \/ \E s \in Sessions : \E m \in RegClientMessages : RegClientMessage(s, m)
  \/ \E c \in RegConnIds : \E m \in RegUpstreamMessages : RegUpstreamMessage(c, m)
  \/ \E c \in RegConnIds : RegUpstreamOpen(c)
  \/ \E c \in RegConnIds : RegUpstreamError(c)
  \/ \E c \in RegConnIds : RegUpstreamClose(c)
  \/ \E s \in Sessions : RegClientError(s)
  \/ \E s \in Sessions : RegClientClose(s)

(***************************************************************************)
(* Specifications.  Each one runs one relay; the variables of the others   *)
(* stay at an initial value.                                               *)
(***************************************************************************)
\* an initial state of the relay of unnamed/part_001, for the other specifications
RelayIdle ==
  /\ RelayInit
  /\ env = [agentId |-> TRUE, agentUrl |-> FALSE, apiKey |-> FALSE]

\* an initial state of the registry relay, for the other specifications
HybridIdle ==
  /\ HybridInit
  /\ hybridEnv = [agentId |-> TRUE, apiKey |-> FALSE]

ConnIds == 1 .. Len(conns)

Next ==
  \/ \E m \in ClientMessages : ClientMessage(m)
  \/ \E ok \in BOOLEAN : AgentUrlResolve(ok)
  \/ \E ok \in BOOLEAN : SignedUrlResolve(ok)
  \/ \E c \in ConnIds : \E m \in UpstreamMessages : UpstreamMessage(c, m)
  \/ \E t \in toolTasks : \E o \in HandlerOutcomes(t) : ToolHandlerDone(t, o)
  \/ \E c \in ConnIds : UpstreamOpen(c)
  \/ \E c \in ConnIds : UpstreamError(c)
  \/ \E c \in ConnIds : UpstreamClose(c)
  \/ ClientError
  \/ ClientClose

Init == RelayInit /\ PacedInit /\ HybridIdle /\ RegInit

Spec == Init /\ [][Next]_vars

\* the relay with the progress the event loop guarantees: a suspended await
\* resumes once its promise settles.  What the network does (the handshake
\* completing, a socket failing or closing, a message arriving) has no
\* fairness: the code sets no timer on any of it.
SpecFair ==
  /\ Spec
  /\ WF_vars(\E ok \in BOOLEAN : AgentUrlResolve(ok))
  /\ WF_vars(\E ok \in BOOLEAN : SignedUrlResolve(ok))
  /\ WF_vars(\E t \in toolTasks : \E o \in HandlerOutcomes(t) : ToolHandlerDone(t, o))

InitPaced == PacedInit /\ RelayIdle /\ HybridIdle /\ RegInit

SpecPaced == InitPaced /\ [][PacedNext]_vars

\* the close event of a socket on which close() was called or an error occurred
PacedCloseCompletes == ws.state = "CLOSING" /\ PacedWsClose

\* the paced relay with its timers and close events carried out: the event
\* loop runs the callback of a started setTimeout, and ws emits "close" after
\* close() or an error (the closing handshake is bounded by its own 30 s timer);
\* ElevenLabs closing an open socket on its own is not assumed
SpecPacedFair ==
  SpecPaced /\ WF_vars(PacedGrace) /\ WF_vars(PacedCloseCompletes)

InitHybrid == HybridInit /\ RelayIdle /\ PacedInit /\ RegInit

SpecHybrid == InitHybrid /\ [][HybridNext]_vars

InitRegistry == RegInit /\ RelayIdle /\ PacedInit /\ HybridIdle

SpecRegistry == InitRegistry /\ [][RegistryNext]_vars

(***************************************************************************)
(* Claims about the WebSocket relay with client tools, checked under Spec. *)
(***************************************************************************)
\* the audio messages delivered downstream whose bytes come from upstream event k
FramesOf(k) ==
  SelectSeq(downSent,
            LAMBDA m : m.type = "audio" /\ m.audio # <<>> /\ m.audio[1].ev = k)

\* the frame sizes a payload of n > 0 bytes is to be split into: all frames of
\* chunkSize bytes but the last, which holds the rest
ExpectedFrameSizes(n) ==
  LET count == (n + chunkSize - 1) \div chunkSize
  IN  [i \in 1 .. count |-> IF i < count THEN chunkSize ELSE n - chunkSize * (count - 1)]

\* C2: every audio frame delivered downstream carries at most 8000 bytes.
C2_FrameAtMostChunkSize ==
  \A i \in 1 .. Len(downSent) :
    downSent[i].type = "audio" => ByteLength(downSent[i].audio) <= chunkSize

\* C3: the frames delivered for one upstream audio event of N > 0 bytes are
\* ceil(N/8000) frames, in split order, all of 8000 bytes but the last.
C3_FramesOfOneEvent ==
  \A k \in 1 .. nEvents :
    LET fs == FramesOf(k)
        n  == ByteLength(ConcatAll([i \in 1 .. Len(fs) |-> fs[i].audio]))
    IN  fs # <<>> =>
          [i \in 1 .. Len(fs) |-> ByteLength(fs[i].audio)] = ExpectedFrameSizes(n)

\* C4: a session has at most one upstream connection that is connecting or open.
C4_AtMostOneUpstream ==
  Cardinality({c \in ConnIds : conns[c].state \in {"CONNECTING", "OPEN"}}) <= 1

\* the relay has nothing left to run: no connection creation is suspended and
\* every socket that is closing has emitted its close event
Settled ==
  /\ initTasks.agentUrl = 0
  /\ initTasks.signedUrl = 0
  /\ clientWs # "CLOSING"
  /\ \A c \in ConnIds : conns[c].state # "CLOSING"

\* C5: once an endpoint has closed and the relay has nothing left to run, the
\* downstream and every upstream connection of the session are closed.
C5_BothEndsClosed ==
  (Settled /\ (clientWs = "CLOSED" \/ \E c \in ConnIds : conns[c].state = "CLOSED"))
    => (clientWs = "CLOSED" /\ \A c \in ConnIds : conns[c].state \notin {"OPEN"})

\* C6: a ping from the downstream delivers exactly one pong downstream, and a
\* ping with event_id e on an open upstream connection delivers exactly one
\* pong with event_id e on that connection.
C6_PingAnsweredOnce ==
  [][/\ (clientWs = "OPEN" /\ ClientMessage([type |-> "ping"]))
          => /\ Len(downSent') = Len(downSent) + 1
             /\ downSent'[Len(downSent')].type = "pong"
     /\ \A c \in ConnIds : \A e \in EventIds :
          (conns[c].state = "OPEN" /\ UpstreamMessage(c, [type |-> "ping", event_id |-> e]))
          => conns'[c].sent = Append(conns[c].sent, [type |-> "pong", event_id |-> e])]_vars

\* C7: a client_tool_call for an unregistered tool, received on an open upstream
\* connection, delivers an is_error client_tool_result naming the tool upstream.
C7_UnknownToolAnswered ==
  [][\A c \in ConnIds : \A p \in {"object", "undefined"} :
       (/\ conns[c].state = "OPEN"
        /\ UpstreamMessage(c, [type |-> "client_tool_call", tool_name |-> "no_such_tool",
                               parameters |-> p]))
       => \E d \in ConnIds :
            conns'[d].sent =
              Append(conns[d].sent,
                     [type |-> "client_tool_result", tool_call_id |-> nCalls + 1,
                      result |-> NoHandlerMessage("no_such_tool"), is_error |-> TRUE])]_vars

\* no endpoint of the session has closed or is closing
SessionOpen ==
  /\ clientWs = "OPEN"
  /\ \A c \in ConnIds : conns[c].state \in {"CONNECTING", "OPEN"}

\* C8: when a tool handler fails in an open session, an is_error
\* client_tool_result carrying the failure message is delivered upstream and no
\* connection changes state.
C8_HandlerFailureReported ==
  [][\A t \in toolTasks :
       (/\ SessionOpen
        /\ conns[t.conn].state = "OPEN"
        /\ ToolHandlerDone(t, [kind |-> "throw", message |-> "TypeError"]))
       => /\ \E d \in ConnIds :
               conns'[d].sent =
                 Append(conns[d].sent,
                        [type |-> "client_tool_result", tool_call_id |-> t.tool_call_id,
                         result |-> "TypeError", is_error |-> TRUE])
          /\ clientWs' = clientWs
          /\ \A d \in ConnIds : conns'[d].state = conns[d].state]_vars

\* the client_tool_result messages delivered upstream for tool call id
ResultsFor(id) ==
  {<<c, i>> \in ConnIds \X (1 .. MaxEvents + MaxCalls) :
     /\ i <= Len(conns[c].sent)
     /\ conns[c].sent[i].type = "client_tool_result"
     /\ conns[c].sent[i].tool_call_id = id}

\* C9: in a session no endpoint of which has closed, every tool call whose
\* handling is over has exactly one client_tool_result.
C9_ExactlyOneResult ==
  \A id \in 1 .. nCalls :
    (SessionOpen /\ \A t \in toolTasks : t.tool_call_id # id)
      => Cardinality(ResultsFor(id)) = 1

(***************************************************************************)
(* Claims about the HTTP relay with paced framing, checked under SpecPaced.*)
(***************************************************************************)
\* the writes of flush f, in order
FlushFrames(f) == SelectSeq(written, LAMBDA w : w.flush = f)

\* no paced emission is in flight and the sink has stayed open
PacedQuiescent ==
  /\ senders = <<>>
  /\ ~res.ended
  /\ ~res.destroyed

\* C1: once no paced emission is in flight, with the sink open all along, the
\* frames written downstream concatenate to the ingested audio bytes, and in
\* every flush all frames but the last have the maximum size.
C1_EmittedEqualsIngested ==
  PacedQuiescent =>
    /\ ConcatAll([i \in 1 .. Len(written) |-> written[i].bytes]) = ingested
    /\ \A f \in 1 .. nPaced :
         \A i \in 1 .. Len(FlushFrames(f)) - 1 :
           ByteLength(FlushFrames(f)[i].bytes) = chunkSize

(***************************************************************************)
(* Claims about the registry relay, checked under SpecHybrid.              *)
(***************************************************************************)
\* C10: an agent_response_correction event delivered while the downstream is
\* open sends exactly one interruption message downstream and nothing else.
C10_CorrectionInterrupts ==
  [][\A c \in HybridConnIds :
       (/\ hybridClientWs = "OPEN"
        /\ HybridUpstreamMessage(c, [type |-> "agent_response_correction"]))
       => clientOut' = Append(clientOut, [type |-> "interruption"])]_vars

(***************************************************************************)
(* Claims about faults and teardown of the WebSocket relay with client     *)
(* tools, checked under Spec.                                              *)
(***************************************************************************)
\* the message types that tell the downstream client of a fault
FaultNotices == {"error", "disconnected", "elevenlabs_disconnected"}

\* C11: an init received on an open downstream while neither an agent id nor
\* an agent URL is configured sends an error message downstream, closes the
\* downstream connection and creates no upstream connection.
C11_InitWithoutAgentId ==
  [][\A u \in Uuids :
       (/\ ~env.agentId
        /\ ~env.agentUrl
        /\ clientWs = "OPEN"
        /\ ClientMessage([type |-> "init", uuid |-> u]))
       => /\ Len(downSent') = Len(downSent) + 1
          /\ downSent'[Len(downSent')].type = "error"
          /\ clientWs' # "OPEN"
          /\ conns' = conns]_vars

\* C12: when the signed-URL exchange of an init fails while the downstream is
\* open, no upstream connection is created, an error message is sent
\* downstream and the downstream connection is closed.
C12_OpenFailureCloses ==
  [][(clientWs = "OPEN" /\ SignedUrlResolve(FALSE))
       => /\ conns' = conns
          /\ downSent' = Append(downSent,
                [type |-> "error", message |-> "Failed to connect to ElevenLabs"])
          /\ clientWs' # "OPEN"]_vars

\* C13: whenever the relay closes an open downstream connection because of a
\* fault (an upstream close, a failed agent-id lookup, an unparseable
\* downstream message), an error or disconnect message has been sent
\* downstream by then.
C13_NoticeBeforeClose ==
  [][(/\ clientWs = "OPEN"
      /\ clientWs' # "OPEN"
      /\ \/ \E c \in ConnIds : UpstreamClose(c)
         \/ AgentUrlResolve(FALSE)
         \/ ClientMessage([type |-> "malformed"]))
       => \E i \in 1 .. Len(downSent') : downSent'[i].type \in FaultNotices]_vars

\* the downstream connection and the upstream connection of the session
\* variable are closed
BothClosed ==
  /\ clientWs = "CLOSED"
  /\ wsElevenLabs # 0
  /\ conns[wsElevenLabs].state = "CLOSED"

\* C14: cleanup of a session whose two connections are closed changes no
\* socket and sends nothing, and a close or error event of another socket of
\* such a session changes nothing but that socket's own state.
C14_CleanupIdempotent ==
  /\ [](wsElevenLabs # 0 =>
          LET cs == [conns EXCEPT ![wsElevenLabs].state = "CLOSED"]
          IN  cleanup(cs, "CLOSED") = [conns |-> cs, client |-> "CLOSED"])
  /\ [][\A c \in ConnIds :
          (BothClosed /\ (UpstreamClose(c) \/ UpstreamError(c)))
          => /\ clientWs' = clientWs
             /\ downSent' = downSent
             /\ refusedSends' = refusedSends
             /\ conns'[c].sent = conns[c].sent
             /\ \A d \in ConnIds \ {c} : conns'[d] = conns[d]]_vars

\* a closed session one more socket of which can still emit close
C14_Witness ==
  /\ BothClosed
  /\ \E c \in ConnIds : conns[c].state \in {"OPEN", "CLOSING"} /\ ~conns[c].aborted

\* C15: a user_audio_chunk is sent upstream only on the upstream connection
\* of the session and only while it is open: no send of one is attempted on
\* a socket in another state.
C15_AudioOnlyWhenOpen ==
  /\ [](\A r \in refusedSends : r.type # "user_audio_chunk")
  /\ [][\A c \in ConnIds :
          (/\ Len(conns'[c].sent) > Len(conns[c].sent)
           /\ conns'[c].sent[Len(conns'[c].sent)].type = "user_audio_chunk")
          => (c = wsElevenLabs /\ conns[c].state = "OPEN")]_vars

\* audio was forwarded on one upstream socket and arrived while another
\* upstream socket was connecting, closing or closed
C15_Witness ==
  /\ \E c \in ConnIds : \E i \in 1 .. Len(conns[c].sent) :
       conns[c].sent[i].type = "user_audio_chunk"
  /\ \E c \in ConnIds : conns[c].state # "OPEN"

\* the session is as cleanup leaves it: the downstream and the upstream
\* connection of the session variable are closing or closed
SessionClosing ==
  /\ clientWs # "OPEN"
  /\ wsElevenLabs # 0
  /\ conns[wsElevenLabs].state \in {"CLOSING", "CLOSED"}

\* C16: once cleanup has closed the two connections of the session, no handler
\* calls send on the downstream or on an upstream connection.
C16_NoSendWhileClosing ==
  [][SessionClosing
       => /\ downSent' = downSent
          /\ refusedSends' = refusedSends
          /\ \A c \in ConnIds : conns'[c].sent = conns[c].sent]_vars


\* the upstream audio chunks of connection c, as the numbers of the downstream
\* messages they carry
AudioSentOn(c) ==
  {conns[c].sent[i].chunk :
     i \in {j \in 1 .. Len(conns[c].sent) : conns[c].sent[j].type = "user_audio_chunk"}}

\* C17: audio that arrives while the upstream connection is not open is
\* dropped and never replayed: no chunk sent upstream is one that arrived
\* while the connection was not open, the completion of the handshake sends
\* nothing, and whenever an audio chunk goes upstream it is the chunk of the
\* downstream message being handled in that very step.
C17_DroppedAudioNeverReplayed ==
  /\ [](\A c \in ConnIds : AudioSentOn(c) \cap droppedAudio = {})
  /\ [][\A c \in ConnIds :
         /\ UpstreamOpen(c) => conns'[c].sent = conns[c].sent
         /\ (Len(conns'[c].sent) > Len(conns[c].sent)
              /\ conns'[c].sent[Len(conns'[c].sent)].type = "user_audio_chunk")
            => /\ nEvents' = nEvents + 1
               /\ conns'[c].sent[Len(conns'[c].sent)].chunk = nEvents']_vars

\* audio was dropped while the upstream connection was connecting, the
\* connection opened, and a later chunk went upstream on it
C17_Witness ==
  /\ droppedAudio # {}
  /\ wsElevenLabs # 0
  /\ conns[wsElevenLabs].state = "OPEN"
  /\ \E n \in AudioSentOn(wsElevenLabs) : \A k \in droppedAudio : k < n

\* the relay handles a message that is unparseable or of an unknown type, from
\* the client or from upstream connection c
MalformedMessageStep ==
  \/ \E t \in {"malformed", "other"} : ClientMessage([type |-> t])
  \/ \E c \in ConnIds : \E t \in {"malformed", "other"} : UpstreamMessage(c, [type |-> t])

\* C18: a malformed message from either side (unparseable JSON, or a missing
\* or unknown type) is dropped without ending the session: with both
\* connections open, handling it leaves both open, and nothing is sent to
\* either side.
C18_MalformedDropped ==
  [][(/\ clientWs = "OPEN"
      /\ wsElevenLabs # 0
      /\ conns[wsElevenLabs].state = "OPEN"
      /\ MalformedMessageStep)
     => /\ clientWs' = "OPEN"
        /\ conns' = conns
        /\ downSent' = downSent]_vars

\* the upstream events that are translated for the client
ForwardedEvents ==
  {m \in UpstreamMessages :
     m.type \in {"agent_response", "user_transcript", "agent_response_correction",
                 "interruption", "audio"}}

\* the numbers of the upstream audio events whose payload is in downSent, in
\* the order of downSent
AudioEventsSent ==
  LET frames == SelectSeq(downSent, LAMBDA d : d.type = "audio" /\ d.audio # <<>>)
  IN  [i \in 1 .. Len(frames) |-> frames[i].audio[1].ev]

\* C19: the downstream messages produced from upstream events are sent in the
\* order in which the events were received: a message already sent keeps its
\* place, a transcript, audio or interruption message that is sent is the
\* translation of the upstream event handled in that very step and goes last,
\* and the audio payloads delivered are in the order of their events.
C19_DownstreamInEventOrder ==
  /\ [](\A i \in 1 .. Len(AudioEventsSent) - 1 : AudioEventsSent[i] < AudioEventsSent[i + 1])
  /\ [][/\ Len(downSent') >= Len(downSent)
         /\ SubSeq(downSent', 1, Len(downSent)) = downSent
         /\ (/\ Len(downSent') > Len(downSent)
             /\ downSent'[Len(downSent')].type \in {"transcript", "audio", "interruption"})
            => /\ Len(downSent') = Len(downSent) + 1
               /\ nEvents' = nEvents + 1
               /\ \E m \in ForwardedEvents :
                    <<downSent'[Len(downSent')]>> = Translate(m, nEvents')]_vars

\* two upstream events of different kinds have been translated in turn
C19_Witness ==
  /\ Len(downSent) = 2
  /\ downSent[1].type = "transcript"
  /\ downSent[2].type = "audio"
  /\ downSent[2].audio # <<>>

\* C20: while a tool handler is awaited, upstream audio, transcript and
\* interruption events are still translated for the client, upstream pings
\* are still answered, and downstream audio still goes upstream when the
\* upstream connection is open; none of these steps ends the wait, and the
\* only thing that waits is the client_tool_result of the pending call.
C20_ToolCallDoesNotBlock ==
  /\ [](\A t \in toolTasks : ResultsFor(t.tool_call_id) = {})
  /\ [][toolTasks # {} =>
         /\ \A c \in ConnIds :
              /\ \A m \in ForwardedEvents :
                   UpstreamMessage(c, m)
                     => /\ downSent' = ClientSend(clientWs, downSent,
                                                  Translate(m, nEvents')[1])
                        /\ toolTasks' = toolTasks
              /\ \A e \in EventIds :
                   UpstreamMessage(c, [type |-> "ping", event_id |-> e])
                     => /\ conns' = SendOnWsElevenLabs(conns,
                                        [type |-> "pong", event_id |-> e])
                        /\ toolTasks' = toolTasks
         /\ (/\ wsElevenLabs # 0
             /\ conns[wsElevenLabs].state = "OPEN"
             /\ ClientMessage([type |-> "audio", audio |-> "base64"]))
            => /\ conns' = [conns EXCEPT ![wsElevenLabs].sent =
                              Append(@, [type |-> "user_audio_chunk", chunk |-> nEvents'])]
               /\ toolTasks' = toolTasks]_vars

\* a tool handler started by the second event is still awaited, and the audio
\* of the third event has been delivered to the client meanwhile
C20_Witness ==
  /\ toolTasks # {}
  /\ nEvents = 3
  /\ \E i \in 1 .. Len(downSent) :
       /\ downSent[i].type = "audio"
       /\ downSent[i].audio # <<>>
       /\ downSent[i].audio[1].ev = 3

(***************************************************************************)
(* Further claims about the HTTP relay with paced framing (SpecPaced).     *)
(***************************************************************************)
\* C21: bytes ingested while a paced split is in flight wait in the pending
\* buffer, are not written between the frames of that split, and leave the
\* buffer as the next flush once the split completes: the writes of a flush
\* are consecutive, and with the upstream connection and the sink both open
\* and no emission in flight the pending buffer is empty.
C21_PendingFlushedAfterSplit ==
  /\ \A i \in 1 .. Len(written) : \A j \in i .. Len(written) :
       written[i].flush = written[j].flush
         => \A k \in i .. j : written[k].flush = written[i].flush
  /\ (/\ senders = <<>>
      /\ ~isSendingChunks
      /\ ws.state = "OPEN"
      /\ ~res.ended
      /\ ~res.destroyed)
     => outputChunksQueue = EmptyBuffer

\* C22: when the upstream connection closes or errors while bytes are still
\* in the pending buffer and the sink is writable, those bytes are written
\* to the sink, once, in the step that ends it.
C22_TeardownFlushesPending ==
  [][(/\ outputChunksQueue # EmptyBuffer
      /\ ~res.ended
      /\ ~res.destroyed
      /\ (PacedWsClose \/ PacedWsError))
     => /\ Len(written') = Len(written) + 1
        /\ written'[Len(written')].bytes = outputChunksQueue
        /\ res'.ended]_vars

\* C23: an audio event with an empty payload writes nothing and leaves the
\* audio buffers as they are, and no audio is ever written to a sink that is
\* already destroyed, on the split path and on the small-buffer path alike.
C23_NoWriteToClosedSink ==
  /\ [](\A i \in 1 .. Len(written) : written[i].sink # "destroyed")
  /\ [][PacedMessage([type |-> "audio", bytes |-> 0])
          => UNCHANGED <<written, ingested, outputChunksQueue, senders>>]_vars

\* C24: once the sink has been destroyed, no frame of a split that is in
\* flight is written any more, and the step in which the split finds the
\* sink destroyed ends the split and clears the emission-in-progress flag.
C24_SplitAbandonedOnSinkClose ==
  /\ [][(res.destroyed /\ Len(written') > Len(written))
          => \A s \in 1 .. Len(senders) :
               written'[Len(written')].flush # senders[s].flush]_vars
  /\ [][\A s \in 1 .. Len(senders) :
          (res.destroyed /\ PacedTimer(s))
            => /\ ~isSendingChunks'
               /\ Len(senders') = Len(senders) - 1
               /\ written' = written]_vars

\* a split of 20000 bytes lost its sink after its first frames: the emission
\* is over, the flag is clear, and the rest of the split was never written
C24_Witness ==
  /\ res.destroyed
  /\ ~res.ended
  /\ ws.state = "OPEN"
  /\ senders = <<>>
  /\ ~isSendingChunks
  /\ outputChunksQueue = EmptyBuffer
  /\ Len(written) >= 1
  /\ \A i \in 1 .. Len(written) : written[i].sink = "open"
  /\ ByteLength(ConcatAll([i \in 1 .. Len(written) |-> written[i].bytes]))
       < ByteLength(ingested)

(***************************************************************************)
(* Further claims about the WebSocket relay with client tools (Spec).      *)
(***************************************************************************)
\* the client_tool_result messages delivered on upstream connection c of the
\* connections cs
ToolResultsOn(cs, c) ==
  IF c > Len(cs) THEN <<>>
  ELSE SelectSeq(cs[c].sent, LAMBDA d : d.type = "client_tool_result")

\* C25: a tool handler that completes after its session was torn down has
\* its result discarded: once the downstream connection is closed, the
\* completion of a handler delivers no client_tool_result on any upstream
\* connection.
C25_NoResultAfterTeardown ==
  [][\A t \in toolTasks : \A o \in HandlerOutcomes(t) :
       (clientWs = "CLOSED" /\ ToolHandlerDone(t, o))
         => \A c \in ConnIds : ToolResultsOn(conns', c) = ToolResultsOn(conns, c)]_vars

(***************************************************************************)
(* Further claims about the registry relay (SpecHybrid).                   *)
(***************************************************************************)
\* C26: after an upstream connection that was open (audio was sent on it) has
\* dropped, the relay opens no new upstream connection for that client on
\* its own, not even when further downstream audio arrives: no socket is
\* created and no connection attempt is started.
C26_NoAutomaticRetry ==
  [][\A c \in HybridConnIds :
       (/\ elevenLabsConns[c].state = "CLOSED"
        /\ elevenLabsConns[c].sent # <<>>
        /\ hybridClientWs = "OPEN")
         => /\ Len(elevenLabsConns') = Len(elevenLabsConns)
            /\ audioTasks' <= audioTasks]_vars

(***************************************************************************)
(* Progress of the WebSocket relay, checked under SpecFair.                *)
(***************************************************************************)
\* an upstream connection of the session has not reported open yet
AwaitingUpstream == \E c \in ConnIds : conns[c].state = "CONNECTING"

\* C27: upstream connection establishment is bounded: a session that awaits
\* the opening of an upstream connection leaves that state, through the
\* connection opening or through the relay giving up on it.
C27_ConnectBounded == AwaitingUpstream ~> ~AwaitingUpstream

(***************************************************************************)
(* Claims about the translations of the registry relay (SpecHybrid).       *)
(***************************************************************************)
\* C28: with the downstream open, each upstream user_transcript event sends
\* exactly one transcript message with role user and the event's text, and
\* each agent_response event exactly one transcript message with role agent
\* and the event's text.
C28_TranscriptsCarryRole ==
  [][\A c \in HybridConnIds : \A t \in Texts :
       /\ (/\ hybridClientWs = "OPEN"
           /\ HybridUpstreamMessage(c, [type |-> "user_transcript", user_transcript |-> t]))
          => clientOut' = Append(clientOut,
                                 [type |-> "transcript", role |-> "user", text |-> t])
       /\ (/\ hybridClientWs = "OPEN"
           /\ HybridUpstreamMessage(c, [type |-> "agent_response", agent_response |-> t]))
          => clientOut' = Append(clientOut,
                                 [type |-> "transcript", role |-> "agent", text |-> t])]_vars

\* the conversation_initiation_metadata events an upstream connection can deliver
MetadataEvents ==
  {m \in HybridUpstreamMessages : m.type = "conversation_initiation_metadata"}

\* C29: a conversation_initiation_metadata event sends nothing downstream and
\* changes no session state, whatever audio formats it advertises.
C29_MetadataNotForwarded ==
  [][\A c \in HybridConnIds : \A m \in MetadataEvents :
       HybridUpstreamMessage(c, m)
         => /\ clientOut' = clientOut
            /\ UNCHANGED <<hybridClientWs, activeConnections, connection,
                           elevenLabsConns, audioTasks>>]_vars

(***************************************************************************)
(* Claims about sends to a closed downstream, checked under Spec.          *)
(***************************************************************************)
\* C30: when an upstream event is translated while the downstream connection
\* is closed, the message is dropped and the session is torn down: nothing
\* is delivered downstream, and after the step the upstream connection the
\* event came on is closing or closed, because teardown was already in
\* progress or because the failed send started it.
C30_FailedSendTearsDown ==
  [][\A c \in ConnIds : \A m \in ForwardedEvents :
       (clientWs = "CLOSED" /\ UpstreamMessage(c, m))
         => /\ downSent' = downSent
            /\ conns'[c].state \in {"CLOSING", "CLOSED"}]_vars

(***************************************************************************)
(* Claims about the registry relay with two clients.                       *)
(***************************************************************************)
\* the upstream sockets created on behalf of client j
SocketsOf(j) == {c \in RegConnIds : regConns[c].by = j}

\* everything that belongs to client j: its downstream socket and what was
\* delivered on it, its key and registry entry, its upstream sockets
RegView(j) ==
  <<regClientWs[j], regOut[j], regClientId[j],
    IF regClientId[j] = "none" THEN NoEntry ELSE regEntries[regClientId[j]],
    [c \in SocketsOf(j) |-> regConns[c]]>>

\* an event of client k: its connection, a message, close or error of its
\* downstream socket, or an open, message, error or close of one of its
\* upstream sockets
RegStep(k) ==
  \/ RegConnection(k)
  \/ \E m \in RegClientMessages : RegClientMessage(k, m)
  \/ RegClientError(k)
  \/ RegClientClose(k)
  \/ \E c \in SocketsOf(k) :
       \/ \E m \in RegUpstreamMessages : RegUpstreamMessage(c, m)
       \/ RegUpstreamOpen(c)
       \/ RegUpstreamError(c)
       \/ RegUpstreamClose(c)

C32_RegistryLifecycle ==
  /\ ClientId \in activeConnections => hybridClientWs = "OPEN"
  /\ hybridClientWs = "OPEN" => ClientId \in activeConnections
  /\ hybridClientWs \in {"CLOSING", "CLOSED"} /\ ClientId \notin activeConnections =>
       \A c \in HybridConnIds : elevenLabsConns[c].state \notin {"CONNECTING", "OPEN"}

(***************************************************************************)
(* Further claims about the relay of unnamed/part_001.                     *)
(***************************************************************************)
\* the positions of downSent that hold a connected message
ConnectedNotices == {i \in 1 .. Len(downSent) : downSent[i].type = "connected"}

\* C33: with an agent id available, the first message the relay sends downstream
\* is a connected message, and it sends exactly one of them.
C33_ConnectedFirst ==
  env.agentId /\ downSent # <<>> =>
    /\ downSent[1].type = "connected"
    /\ Cardinality(ConnectedNotices) = 1

\* C34: when the client connection has closed while the upstream creation of
\* the session's init was still waiting for the agent id or the signed URL, the
\* upstream socket created afterwards does not get to be open: no open upstream
\* socket exists once the client connection is closed.
C34_NoUpstreamOutlivesClient ==
  clientWs = "CLOSED" /\ nInits = 1 =>
    \A c \in ConnIds : conns[c].state # "OPEN"

\* C35: a pong is sent on the upstream connection that delivered the ping, and
\* a client_tool_result on the connection that delivered the client_tool_call:
\* neither step sends anything on another upstream connection, whatever
\* wsElevenLabs points to when the reply is made.
C35_ReplyOnTriggeringConnection ==
  [][/\ \A c \in ConnIds : \A m \in UpstreamMessages :
          m.type \in {"ping", "client_tool_call"} /\ UpstreamMessage(c, m) =>
            \A d \in ConnIds \ {c} : conns'[d].sent = conns[d].sent
     /\ \A t \in toolTasks : \A o \in HandlerOutcomes(t) :
          ToolHandlerDone(t, o) =>
            \A d \in ConnIds \ {t.conn} : conns'[d].sent = conns[d].sent]_vars

(***************************************************************************)
(* Further claims about the paced HTTP relay.                              *)
(***************************************************************************)
\* C36: paced emission is single-flight: at most one run of
\* sendChunksSequentially is in progress, and isSendingChunks is true exactly
\* while one is.
C36_SingleFlight ==
  /\ Len(senders) <= 1
  /\ isSendingChunks <=> senders # <<>>

\* C37: once the wait for the upstream connection has ended with the timeout or
\* an upstream error and the request was answered with an error status, the
\* upstream socket is not open, and no audio write is made on the response.
C37_FailedAttemptClosed ==
  /\ [](phase = "failed" => ws.state # "OPEN")
  /\ [][phase = "failed" => written' = written]_vars

\* C38: after the request stream has ended, the upstream socket is eventually
\* closed (the 1 s timer closes it if it is still open) and the response is
\* then ended; a request error closes an open upstream socket and ends the
\* response in the same step.
C38_RequestEndClosesUpstream ==
  /\ reqState = "ended" ~> (ws.state = "CLOSED" /\ (res.ended \/ res.destroyed))
  /\ [][PacedReqError =>
          ws'.state # "OPEN" /\ (res'.ended \/ res'.destroyed)]_vars

\* the request ended with the upstream open, the timer fired, and the socket
\* has closed and the response ended with status 200
C38_Witness ==
  /\ reqState = "ended"
  /\ ~graceTimer
  /\ ws.state = "CLOSED"
  /\ \E i \in 1 .. Len(ws.sent) : ws.sent[i].type = "user_audio_chunk"
  /\ res.ended /\ res.status = "200"

\* C39: the handlers of avr_transfer and avr_hangup never fail: whenever one of
\* them settles, it has returned a string, and the client_tool_result the
\* dispatcher builds for it has is_error false.
C39_ToolHandlersNeverFail ==
  [][\A t \in toolTasks : \A o \in HandlerOutcomes(t) :
        t.tool_name \in {"avr_transfer", "avr_hangup"} /\ ToolHandlerDone(t, o) =>
          o.kind = "return" /\ ~ToolResult(t, o).is_error]_vars

====
